---- MODULE Spec2Model ----
(***************************************************************************)
(* Shift scheduling and payroll engine of gestao (models.py, admin.py,     *)
(* views.py): the stored rows, the admin save of a work block with its     *)
(* recurrence expansion, the JSON endpoints that edit blocks, assignments  *)
(* and bonus/penalty rows, the rate resolution and the monthly report.     *)
(*                                                                         *)
(* Decimals are fixed point and modelled as scaled integers: a duration    *)
(* is in hundredths of an hour, a rate or an amount in cents, and a        *)
(* product duration * rate is in 1/10000 of a currency unit (the exponent  *)
(* of a Decimal product is the sum of the exponents).                      *)
(***************************************************************************)
EXTENDS Integers, Sequences, FiniteSets, TLC

(***************************************************************************)
(* Bounds and input domains                                                *)
(***************************************************************************)
\* number of requests served in one behaviour of Spec
MaxOps == 2

\* null of a nullable DecimalField / DateTimeField (models.py null=True)
None == -1
\* null of the nullable client foreign key
NoClient == "null"

Employees == {"Ana", "Rui"}
UnknownEmployee == "Zed"
Clients == {"Acme"}
UnknownClient == "Nemo"

T(h, m) == [hour |-> h, minute |-> m]

\* the clock of the requests (timezone.now()), a fixed Wednesday
Today == [year |-> 2025, month |-> 3, day |-> 5]

(***************************************************************************)
(* datetime / calendar of the standard library, as the code calls them     *)
(***************************************************************************)
IsLeap(y) == (y % 4 = 0) /\ ((y % 100 # 0) \/ (y % 400 = 0))

DaysInMonth(y, m) ==
    IF m = 2 THEN (IF IsLeap(y) THEN 29 ELSE 28)
    ELSE IF m \in {4, 6, 9, 11} THEN 30 ELSE 31

\* calendar.monthrange(year, month)[1]
monthrange(y, m) == DaysInMonth(y, m)

\* datetime(year, month, day) raises ValueError unless the date exists
ValidDate(y, m, d) == m \in 1..12 /\ d >= 1 /\ d <= DaysInMonth(y, m)

RECURSIVE DaysBeforeMonth(_, _)
DaysBeforeMonth(y, m) ==
    IF m <= 1 THEN 0 ELSE DaysBeforeMonth(y, m - 1) + DaysInMonth(y, m - 1)

DaysBeforeYear(y) ==
    (y - 1) * 365 + ((y - 1) \div 4) - ((y - 1) \div 100) + ((y - 1) \div 400)

\* date.toordinal(): 1 is 0001-01-01, a Monday
toordinal(y, m, d) == DaysBeforeYear(y) + DaysBeforeMonth(y, m) + d

\* date.weekday(): Monday is 0
weekday(y, m, d) == (toordinal(y, m, d) + 6) % 7

isoweek1monday(y) ==
    LET firstday == toordinal(y, 1, 1)
        firstweekday == (firstday + 6) % 7
        week1monday == firstday - firstweekday
    IN  IF firstweekday > 3 THEN week1monday + 7 ELSE week1monday

\* date.isocalendar()[:2] as <<ISO year, ISO week>>
isocalendar(y, m, d) ==
    LET today == toordinal(y, m, d)
        w0 == (today - isoweek1monday(y)) \div 7
    IN  IF today < isoweek1monday(y)
        THEN <<y - 1, ((today - isoweek1monday(y - 1)) \div 7) + 1>>
        ELSE IF w0 >= 52 /\ today >= isoweek1monday(y + 1)
             THEN <<y + 1, 1>>
             ELSE <<y, w0 + 1>>

(***************************************************************************)
(* models.py                                                               *)
(***************************************************************************)
\* Employee.has_contract
has_contract(contract, e) == contract[e] # None

\* the WorkBlock row an assignment points to
work_block(blocks, a) == CHOOSE b \in blocks : b.id = a.work_block

\* get_employee_hourly_rate with the contract rate taking precedence over
\* the override
get_employee_hourly_rate_contract_first(contract, a) ==
    IF has_contract(contract, a.employee) THEN contract[a.employee]
    ELSE IF a.hourly_rate_override # None THEN a.hourly_rate_override
    ELSE 0

\* EmployeeWorkAssignment.get_employee_hourly_rate
get_employee_hourly_rate(contract, a) ==
    IF a.hourly_rate_override # None THEN a.hourly_rate_override
    ELSE IF has_contract(contract, a.employee) THEN contract[a.employee]
    ELSE 0

\* get_employee_payment without the receives_payment opt-out
get_employee_payment_always_paid(contract, a) ==
    a.duration * get_employee_hourly_rate(contract, a)

\* EmployeeWorkAssignment.get_employee_payment
get_employee_payment(contract, a) ==
    IF ~a.receives_payment THEN 0
    ELSE a.duration * get_employee_hourly_rate(contract, a)

\* get_client_cost billing nothing for an unpaid assignment
get_client_cost_if_paid(blocks, a) ==
    IF ~a.receives_payment THEN 0
    ELSE a.duration * work_block(blocks, a).hourly_value

\* EmployeeWorkAssignment.get_client_cost
get_client_cost(blocks, a) == a.duration * work_block(blocks, a).hourly_value

\* time comparison of datetime.time values
TimeLT(t1, t2) ==
    t1.hour < t2.hour \/ (t1.hour = t2.hour /\ t1.minute < t2.minute)

\* WorkBlock.clean: TRUE when no ValidationError is raised
clean(f) ==
    /\ ~(f.day_of_month < 1 \/ f.day_of_month > 31)
    /\ ~(~TimeLT(f.start_time, f.end_time))

Abs(x) == IF x < 0 THEN -x ELSE x

\* signed_amount without the sign of a penalty
signed_amount_unsigned(bp) == Abs(bp.amount)

\* BonusPenalty.signed_amount
signed_amount(bp) ==
    IF bp.type = "penalty" THEN -Abs(bp.amount) ELSE Abs(bp.amount)

\* sum(...) of Python over the rows of a queryset
RECURSIVE SumF(_, _)
SumF(f, S) ==
    IF S = {} THEN 0
    ELSE LET x == CHOOSE x \in S : TRUE IN f[x] + SumF(f, S \ {x})


(***************************************************************************)
(* admin_statistics: the per-employee figures of the monthly report        *)
(***************************************************************************)
\* completed_assignments queryset of one employee
completed_assignments(blocks, assignments, e, y, m) ==
    {a \in assignments :
        /\ a.employee = e
        /\ work_block(blocks, a).year = y
        /\ work_block(blocks, a).month = m
        /\ work_block(blocks, a).archived = FALSE
        /\ a.is_completed = TRUE}

\* all_assignments restricted to the assignments still to complete
all_assignments_pending_only(blocks, assignments, e, y, m) ==
    {a \in assignments :
        /\ a.employee = e
        /\ work_block(blocks, a).year = y
        /\ work_block(blocks, a).month = m
        /\ work_block(blocks, a).archived = FALSE
        /\ a.is_completed = FALSE}

\* all_assignments queryset of one employee
all_assignments(blocks, assignments, e, y, m) ==
    {a \in assignments :
        /\ a.employee = e
        /\ work_block(blocks, a).year = y
        /\ work_block(blocks, a).month = m
        /\ work_block(blocks, a).archived = FALSE}

\* bonuses_penalties queryset of one employee
bonuses_penalties(bonuses, e, y, m) ==
    {bp \in bonuses : bp.employee = e /\ bp.year = y /\ bp.month = m}

total_hours_worked(blocks, assignments, e, y, m) ==
    LET S == completed_assignments(blocks, assignments, e, y, m)
    IN  SumF([a \in S |-> a.duration], S)

total_value_earned(blocks, assignments, contract, e, y, m) ==
    LET S == completed_assignments(blocks, assignments, e, y, m)
    IN  SumF([a \in S |-> get_employee_payment(contract, a)], S)

bonus_penalty_total(bonuses, e, y, m) ==
    LET S == bonuses_penalties(bonuses, e, y, m)
    IN  SumF([bp \in S |-> signed_amount(bp)], S)

\* total_value_earned + bonus_penalty_total; the amounts have two decimals
\* and the payments four, so the sum is taken at four decimals
final_value_earned(blocks, assignments, bonuses, contract, e, y, m) ==
    total_value_earned(blocks, assignments, contract, e, y, m)
        + 100 * bonus_penalty_total(bonuses, e, y, m)

expected_hours(blocks, assignments, e, y, m) ==
    LET S == all_assignments(blocks, assignments, e, y, m)
    IN  SumF([a \in S |-> a.duration], S)

\* the rows of 'daily_work' are built with datetime(year, month, day), which
\* raises ValueError when the day does not exist in the month
daily_work_raises(blocks, S, y, m) ==
    \E a \in S : ~ValidDate(y, m, work_block(blocks, a).day_of_month)

\* current_week_filtered is computed only for the month of today, with
\* datetime(year, month, day_of_month) of every assignment of the month
current_week_raises_at(blocks, assignments, e, y, m, today) ==
    /\ today.year = y /\ today.month = m
    /\ \E a \in all_assignments(blocks, assignments, e, y, m) :
            ~ValidDate(work_block(blocks, a).year, work_block(blocks, a).month,
                       work_block(blocks, a).day_of_month)

current_week_raises(blocks, assignments, e, y, m) ==
    current_week_raises_at(blocks, assignments, e, y, m, Today)

\* current_week_filtered of one employee when the report is asked on the
\* day `today` (and no datetime() raises)
current_week_filtered(blocks, assignments, e, y, m, today) ==
    IF today.year = y /\ today.month = m
    THEN LET current_week_start ==
                toordinal(today.year, today.month, today.day)
                    - weekday(today.year, today.month, today.day)
             current_week_end == current_week_start + 6
         IN  {a \in all_assignments(blocks, assignments, e, y, m) :
                LET block_date ==
                        toordinal(work_block(blocks, a).year,
                                  work_block(blocks, a).month,
                                  work_block(blocks, a).day_of_month)
                IN  current_week_start <= block_date
                        /\ block_date <= current_week_end}
    ELSE {}

current_week_hours_assigned(blocks, assignments, e, y, m, today) ==
    LET S == current_week_filtered(blocks, assignments, e, y, m, today)
    IN  SumF([a \in S |-> a.duration], S)

current_week_blocks_assigned(blocks, assignments, e, y, m, today) ==
    Cardinality(current_week_filtered(blocks, assignments, e, y, m, today))

\* one entry of employee_stats
employee_stat(blocks, assignments, bonuses, contract, e, y, m) ==
    [total_hours_worked |-> total_hours_worked(blocks, assignments, e, y, m),
     total_value_earned |->
        total_value_earned(blocks, assignments, contract, e, y, m),
     final_value_earned |->
        final_value_earned(blocks, assignments, bonuses, contract, e, y, m),
     bonus_penalty_total |-> bonus_penalty_total(bonuses, e, y, m),
     expected_hours |-> expected_hours(blocks, assignments, e, y, m)]

(***************************************************************************)
(* admin_statistics: the per-client figures of the monthly report          *)
(***************************************************************************)
\* work_blocks queryset of the month
work_blocks(blocks, y, m) ==
    {b \in blocks : b.year = y /\ b.month = m /\ b.archived = FALSE}

\* work_blocks.values_list('client', flat=True).distinct(); NoClient stands
\* for the None of has_null_client, reported as the client "Outros"
client_ids(blocks, y, m) == {b.client : b \in work_blocks(blocks, y, m)}

\* client_completed_assignments with the archived blocks left in
client_completed_assignments_with_archived(blocks, assignments, c, y, m) ==
    {a \in assignments :
        /\ work_block(blocks, a).client = c
        /\ work_block(blocks, a).year = y
        /\ work_block(blocks, a).month = m
        /\ a.is_completed = TRUE}

\* client_completed_assignments (outros_completed_assignments for NoClient)
client_completed_assignments(blocks, assignments, c, y, m) ==
    {a \in assignments :
        /\ work_block(blocks, a).client = c
        /\ work_block(blocks, a).year = y
        /\ work_block(blocks, a).month = m
        /\ work_block(blocks, a).archived = FALSE
        /\ a.is_completed = TRUE}

\* one entry of client_stats
client_stat(blocks, assignments, c, y, m) ==
    LET S == client_completed_assignments(blocks, assignments, c, y, m)
    IN  [total_hours |-> SumF([a \in S |-> a.duration], S),
         total_value |-> SumF([a \in S |-> get_client_cost(blocks, a)], S),
         unique_workers |-> Cardinality({a.employee : a \in S})]

\* the context admin_statistics renders, or the exception it ends with
admin_statistics(blocks, assignments, bonuses, contract, y, m) ==
    IF \/ \E e \in Employees :
            \/ current_week_raises(blocks, assignments, e, y, m)
            \/ daily_work_raises(blocks,
                    completed_assignments(blocks, assignments, e, y, m), y, m)
       \/ \E c \in client_ids(blocks, y, m) :
            daily_work_raises(blocks,
                client_completed_assignments(blocks, assignments, c, y, m),
                y, m)
    THEN [raised |-> TRUE, employee_stats |-> <<>>, client_stats |-> <<>>]
    ELSE [raised |-> FALSE,
          employee_stats |->
            [e \in Employees |->
                employee_stat(blocks, assignments, bonuses, contract, e, y, m)],
          client_stats |->
            [c \in client_ids(blocks, y, m) |->
                client_stat(blocks, assignments, c, y, m)]]

(***************************************************************************)
(* admin.py: recurrence expansion of a new constant block                  *)
(***************************************************************************)
\* the expansion loop without its existence check
existing_unchecked(blocks, obj, day) == FALSE

\* WorkBlock.objects.filter(...).exists() of the expansion loop
existing(blocks, obj, day) ==
    \E b \in blocks :
        /\ b.name = obj.name
        /\ b.day_of_month = day
        /\ b.localization = obj.localization
        /\ b.client = obj.client
        /\ b.month = obj.month
        /\ b.year = obj.year
        /\ b.start_time = obj.start_time
        /\ b.end_time = obj.end_time
        /\ b.constant = TRUE

\* WorkBlock.objects.create(...) of the expansion loop
new_block(obj, day, id) ==
    [id |-> id,
     name |-> obj.name,
     localization |-> obj.localization,
     client |-> obj.client,
     start_time |-> obj.start_time,
     end_time |-> obj.end_time,
     day_of_month |-> day,
     month |-> obj.month,
     year |-> obj.year,
     duration |-> obj.duration,
     constant |-> obj.constant,
     archived |-> obj.archived,
     hourly_value |-> obj.hourly_value]

\* copy_assignment leaving hourly_rate_override out of the create call
copy_assignment_without_override(a, id) ==
    [employee |-> a.employee,
     work_block |-> id,
     duration |-> a.duration,
     is_completed |-> FALSE,
     completed_date |-> None,
     receives_payment |-> a.receives_payment,
     hourly_rate_override |-> None]

\* EmployeeWorkAssignment.objects.create(...) of the expansion loop;
\* is_completed and completed_date take the field defaults
copy_assignment(a, id) ==
    [employee |-> a.employee,
     work_block |-> id,
     duration |-> a.duration,
     is_completed |-> FALSE,
     completed_date |-> None,
     receives_payment |-> a.receives_payment,
     hourly_rate_override |-> a.hourly_rate_override]

\* the body of "if not existing:": one occurrence and the copies of the
\* assignments the template has at that moment. db is the stored state
\* [blocks, assignments, nextId, history].
create_occurrence(db, obj, day) ==
    [blocks |-> db.blocks \cup {new_block(obj, day, db.nextId)},
     assignments |-> db.assignments \cup
        {copy_assignment(a, db.nextId) :
            a \in {x \in db.assignments : x.work_block = obj.id}},
     nextId |-> db.nextId + 1,
     history |-> db.history @@
        (db.nextId :> [origin |-> obj.id, born_constant |-> FALSE, expansions |-> 0])]

\* one iteration of the loop "for day in range(...)"
expand_day(db, obj, day, last_day) ==
    LET wd == weekday(obj.year, obj.month, obj.day_of_month)
    IN  IF weekday(obj.year, obj.month, obj.day_of_month) = wd /\ day <= last_day
        THEN IF ~existing(db.blocks, obj, day)
             THEN create_occurrence(db, obj, day)
             ELSE db
        ELSE db

\* the loop, from candidate day `day` on
RECURSIVE expand_from(_, _, _, _)
expand_from(db, obj, day, last_day) ==
    IF day >= last_day + 1 THEN db
    ELSE expand_from(expand_day(db, obj, day, last_day), obj, day + 7, last_day)

\* the expansion with range(obj.day_of_month + 7, last_day, 7)
expand_before_last_day(db, obj) ==
    expand_from(db, obj, obj.day_of_month + 7,
                monthrange(obj.year, obj.month) - 1)

\* the expansion of save_related for the block obj
expand(db, obj) ==
    expand_from(db, obj, obj.day_of_month + 7, monthrange(obj.year, obj.month))


(***************************************************************************)
(* views.py: the 'Value Earned' column of the CSV exports                  *)
(***************************************************************************)
\* total_value_earned of export_employee_csv: the completed hours at the
\* hourly value of the block
export_employee_csv_value_earned(blocks, assignments, e, y, m) ==
    LET S == completed_assignments(blocks, assignments, e, y, m)
    IN  SumF([a \in S |-> a.duration * work_block(blocks, a).hourly_value], S)

\* total_value_earned of the employee section of export_combined_csv
export_combined_csv_value_earned(blocks, assignments, e, y, m) ==
    LET S == completed_assignments(blocks, assignments, e, y, m)
    IN  SumF([a \in S |-> a.duration * work_block(blocks, a).hourly_value], S)


(***************************************************************************)
(* views.py: the blocks of the week that index lays out                    *)
(***************************************************************************)
\* date.fromordinal(n), for the years around the stored blocks
fromordinal(n) ==
    LET y == CHOOSE x \in 2023..2027 :
                toordinal(x, 1, 1) <= n /\ n < toordinal(x + 1, 1, 1)
        m == CHOOSE x \in 1..12 :
                /\ toordinal(y, x, 1) <= n
                /\ n < toordinal(y, x, 1) + DaysInMonth(y, x)
    IN  [year |-> y, month |-> m, day |-> n - toordinal(y, m, 1) + 1]

\* datetime.fromisocalendar(year, week, day).date(), as an ordinal
fromisocalendar(year, week, day) ==
    isoweek1monday(year) + (week - 1) * 7 + (day - 1)

\* the queryset work_blocks of index filtered by the year of the request
\* and by the months of the first and the last day of the week
index_work_blocks(blocks, year, week) ==
    LET start_date == fromisocalendar(year, week, 1)
        end_date == start_date + 6
    IN  {b \in blocks :
            /\ b.year = year
            /\ b.month \in {fromordinal(start_date).month,
                             fromordinal(end_date).month}}

\* week_blocks: the blocks of work_blocks dated within the week
week_blocks(blocks, year, week) ==
    LET start_date == fromisocalendar(year, week, 1)
        end_date == start_date + 6
    IN  {b \in index_work_blocks(blocks, year, week) :
            LET block_date == toordinal(b.year, b.month, b.day_of_month)
            IN  start_date <= block_date /\ block_date <= end_date}

\* day_blocks of day i (0 is Monday) of the week
index_day_blocks(blocks, year, week, i) ==
    LET date == fromordinal(fromisocalendar(year, week, 1) + i)
    IN  {b \in week_blocks(blocks, year, week) :
            b.day_of_month = date.day /\ b.month = date.month}

\* the days index renders, or the ValueError of datetime() for a block of
\* work_blocks whose day does not exist
index(blocks, year, week) ==
    IF \E b \in index_work_blocks(blocks, year, week) :
            ~ValidDate(b.year, b.month, b.day_of_month)
    THEN [raised |-> TRUE, days |-> <<>>]
    ELSE [raised |-> FALSE,
          days |-> [i \in 0..6 |->
                        {b.id : b \in index_day_blocks(blocks, year, week, i)}]]

(***************************************************************************)
(* State                                                                   *)
(***************************************************************************)
VARIABLES
    blocks,                 \* WorkBlock rows
    assignments,            \* EmployeeWorkAssignment rows
    bonuses,                \* BonusPenalty rows
    contract,               \* Employee.contract_hourly_rate of each employee
    nextId,                 \* next primary key of WorkBlock
    nextBonusId,            \* next primary key of BonusPenalty
    is_new_constant_block,  \* WorkBlockAdmin._is_new_constant_block
    original_block,         \* WorkBlockAdmin._original_block, <<>> when unset
    history,                \* per block id: the block it was expanded from (0:
                            \* created by an admin form), whether the admin form
                            \* created it constant, and how often the expansion
                            \* of save_related ran for it
    nops,                   \* requests served so far
    last,                   \* the last request: handler, block id, HTTP status
    threads,                \* the admin requests in progress, one per server
                            \* thread: position, own saved block, inline rows,
                            \* local obj and day of save_related
    layout,                 \* one run of the day layout of the week views
    formatting              \* one call of a duration formatter: the value,
                            \* the text made of it and the value read back

dbvars == <<blocks, assignments, bonuses, contract, nextId, nextBonusId>>
adminvars == <<is_new_constant_block, original_block>>
vars == <<blocks, assignments, bonuses, contract, nextId, nextBonusId,
          is_new_constant_block, original_block, history, nops, last,
          threads, layout, formatting>>

\* an id no row has (auto primary keys start at 1)
MissingId == 0

Ids == {b.id : b \in blocks}
block_of(id) == CHOOSE b \in blocks : b.id = id

\* the delete of the assignments without its work_block filter
assignments_of_any_block(A, id) == A

\* EmployeeWorkAssignment.objects.filter(work_block=work_block)
assignments_of(A, id) == {a \in A : a.work_block = id}

Threads == {1, 2}

IdleThread ==
    [pc |-> "idle", self |-> <<>>, inl |-> {}, obj |-> <<>>, day |-> 0,
     served |-> 0]

IdleLayout ==
    [pc |-> "idle", input |-> <<>>, day_blocks |-> <<>>, next |-> 0,
     overlap_groups |-> <<>>, positioned_blocks |-> <<>>]

IdleFormatting ==
    [pc |-> "idle", formatter |-> "", value |-> 0,
     text |-> [hours |-> 0, minutes |-> <<>>], parsed |-> <<>>]

\* the rows and the admin object before any request
EmptyStore ==
    /\ blocks = {}
    /\ assignments = {}
    /\ bonuses = {}
    /\ contract = [e \in Employees |-> IF e = "Rui" THEN 1500 ELSE None]
    /\ nextId = 1
    /\ nextBonusId = 1
    /\ is_new_constant_block = FALSE
    /\ original_block = <<>>
    /\ history = <<>>
    /\ nops = 0
    /\ last = [op |-> "init", block |-> MissingId, status |-> 0]

\* the response of a handler
Respond(op, id, status) ==
    /\ last' = [op |-> op, block |-> id, status |-> status]
    /\ nops' = nops + 1
    /\ UNCHANGED <<threads, layout, formatting>>

Init ==
    /\ EmptyStore
    /\ threads = [t \in Threads |-> IdleThread]
    /\ formatting = IdleFormatting
    /\ layout = IdleLayout

(***************************************************************************)
(* admin.py: WorkBlockAdmin                                                *)
(***************************************************************************)
\* the forms an administrator submits to create a block
AddDates == {<<3, 3>>, <<10, 3>>, <<24, 3>>, <<17, 2>>, <<31, 2>>}

BlockForm(day, month, client, constant) ==
    [name |-> "A",
     localization |-> "Rua 1",
     client |-> client,
     start_time |-> T(9, 0),
     end_time |-> T(12, 30),
     day_of_month |-> day,
     month |-> month,
     year |-> 2025,
     duration |-> 350,
     constant |-> constant,
     archived |-> FALSE,
     hourly_value |-> 2000]

AddForms ==
    {BlockForm(dm[1], dm[2], c, k) :
        dm \in AddDates, c \in {NoClient, "Acme"}, k \in BOOLEAN}
    \cup {[BlockForm(30, 12, NoClient, FALSE) EXCEPT !.year = 2024]}
    \cup {BlockForm(32, 3, NoClient, TRUE),
          [BlockForm(3, 3, NoClient, TRUE) EXCEPT !.end_time = T(9, 0)]}

\* the rows of EmployeeWorkAssignmentInline submitted with the form;
\* completed_date is a read-only field and keeps its default
InlineRow(e, d, done, pay, rate) ==
    [employee |-> e, duration |-> d, is_completed |-> done,
     receives_payment |-> pay, hourly_rate_override |-> rate]

InlineForms ==
    {{InlineRow("Ana", 350, TRUE, TRUE, 1000)},
     {InlineRow("Ana", 350, FALSE, TRUE, None),
      InlineRow("Rui", 200, FALSE, TRUE, 1250)}}

inline_assignment(r, id) ==
    [employee |-> r.employee,
     work_block |-> id,
     duration |-> r.duration,
     is_completed |-> r.is_completed,
     completed_date |-> None,
     receives_payment |-> r.receives_payment,
     hourly_rate_override |-> r.hourly_rate_override]

\* save_model without the "not change" test
new_constant_flag_on_change(obj, change) == obj.constant

\* save_model: the flag it leaves on the admin object
new_constant_flag(obj, change) == obj.constant /\ ~change

\* save_related after super().save_related: the expansion branch, on the
\* stored state db; [db, raised]
save_related_expand(db, flag, orig) ==
    IF flag
    THEN LET obj == orig[1]
         IN  IF ~ValidDate(obj.year, obj.month, obj.day_of_month)
             THEN [db |-> db, raised |-> TRUE]
             ELSE [db |-> [expand(db, obj) EXCEPT
                              !.history[obj.id].expansions = @ + 1],
                   raised |-> FALSE]
    ELSE [db |-> db, raised |-> FALSE]

\* POST of the admin add form: form validation, save_model, save_related.
\* The admin view runs in one transaction, so an exception leaves no row.
AdminAdd(form, inl) ==
    /\ nops < MaxOps
    /\ IF ~clean(form)
       THEN /\ Respond("admin_add", MissingId, 200)
            /\ UNCHANGED <<dbvars, adminvars, history>>
       ELSE LET obj == [id |-> nextId] @@ form
                flag == new_constant_flag(obj, FALSE)
                orig == IF flag THEN <<obj>> ELSE original_block
                db1 == [blocks |-> blocks \cup {obj},
                        assignments |-> assignments \cup
                            {inline_assignment(r, obj.id) : r \in inl},
                        nextId |-> nextId + 1,
                        history |-> history @@
                            (obj.id :> [origin |-> 0,
                                        born_constant |-> obj.constant,
                                        expansions |-> 0])]
                res == save_related_expand(db1, flag, orig)
            IN  /\ is_new_constant_block' = flag
                /\ original_block' = orig
                /\ IF res.raised
                   THEN /\ Respond("admin_add", MissingId, 500)
                        /\ UNCHANGED <<dbvars, history>>
                   ELSE /\ blocks' = res.db.blocks
                        /\ assignments' = res.db.assignments
                        /\ nextId' = res.db.nextId
                        /\ history' = res.db.history
                        /\ Respond("admin_add", obj.id, 302)
                        /\ UNCHANGED <<bonuses, contract, nextBonusId>>

\* POST of the admin change form of block id: the constant flag is set to
\* `constant`, and the inline row of employee `done` (if any) is ticked
\* completed ("-" leaves the inline rows as they are)
AdminChange(id, constant, done) ==
    /\ nops < MaxOps
    /\ id \in Ids
    /\ LET obj == [block_of(id) EXCEPT !.constant = constant]
       IN  IF ~clean(obj)
           THEN /\ Respond("admin_change", id, 200)
                /\ UNCHANGED <<dbvars, adminvars, history>>
           ELSE LET flag == new_constant_flag(obj, TRUE)
                    orig == IF flag THEN <<obj>> ELSE original_block
                    db1 == [blocks |-> (blocks \ {block_of(id)}) \cup {obj},
                            assignments |->
                                {IF a.work_block = id /\ a.employee = done
                                 THEN [a EXCEPT !.is_completed = TRUE]
                                 ELSE a : a \in assignments},
                            nextId |-> nextId,
                            history |-> history]
                    res == save_related_expand(db1, flag, orig)
                IN  /\ is_new_constant_block' = flag
                    /\ original_block' = orig
                    /\ IF res.raised
                       THEN /\ Respond("admin_change", id, 500)
                            /\ UNCHANGED <<dbvars, history>>
                       ELSE /\ blocks' = res.db.blocks
                            /\ assignments' = res.db.assignments
                            /\ nextId' = res.db.nextId
                            /\ history' = res.db.history
                            /\ Respond("admin_change", id, 302)
                            /\ UNCHANGED <<bonuses, contract, nextBonusId>>

\* EmployeeAdmin: the change form of an employee sets contract_hourly_rate
EmployeeAdminChange(e, rate) ==
    /\ nops < MaxOps
    /\ contract' = [contract EXCEPT ![e] = rate]
    /\ Respond("employee_change", MissingId, 302)
    /\ UNCHANGED <<blocks, assignments, bonuses, nextId, nextBonusId,
                   adminvars, history>>


(***************************************************************************)
(* views.py: the endpoints of the employees                                *)
(***************************************************************************)
\* work_block.employees_assigned.filter(id=employee.id).exists()
is_assigned(A, e, id) == \E a \in A : a.employee = e /\ a.work_block = id

\* the toggle marking the assignment completed whatever it was
toggle_assignment_mark_done(a, now) ==
    [a EXCEPT !.is_completed = TRUE, !.completed_date = now]

\* "Toggle completion" of toggle_completion: the row that is saved, now
\* being timezone.now()
toggle_assignment(a, now) ==
    LET done == ~a.is_completed
    IN  [a EXCEPT !.is_completed = done,
                  !.completed_date = IF done THEN now ELSE None]

\* toggle_completion, called by the user of employee e
toggle_completion(e, id) ==
    /\ nops < MaxOps
    /\ IF id \notin Ids
       THEN /\ Respond("toggle_completion", id, 404)
            /\ UNCHANGED <<dbvars, adminvars, history>>
       ELSE IF ~is_assigned(assignments, e, id)
       THEN /\ Respond("toggle_completion", id, 403)
            /\ UNCHANGED <<dbvars, adminvars, history>>
       ELSE LET a == CHOOSE x \in assignments :
                        x.employee = e /\ x.work_block = id
                b == toggle_assignment(a, nops + 1)
            IN  /\ assignments' = (assignments \ {a}) \cup {b}
                /\ Respond("toggle_completion", id, 200)
                /\ UNCHANGED <<blocks, bonuses, contract, nextId,
                               nextBonusId, adminvars, history>>

\* "Cannot edit past weeks" of update_duration
past_week(b) ==
    LET current_year == Today.year
        current_week == isocalendar(Today.year, Today.month, Today.day)[2]
        iso == isocalendar(b.year, b.month, b.day_of_month)
        block_year == iso[1]
        block_week == iso[2]
    IN  block_year < current_year
            \/ (block_year = current_year /\ block_week < current_week)

\* update_duration, called by the user of employee e with POST duration d
update_duration(e, id, d) ==
    /\ nops < MaxOps
    /\ LET status ==
               IF id \notin Ids THEN 404
               ELSE IF ~is_assigned(assignments, e, id) THEN 403
               ELSE IF ~ValidDate(block_of(id).year, block_of(id).month,
                                  block_of(id).day_of_month) THEN 500
               ELSE IF past_week(block_of(id)) THEN 403
               ELSE IF d <= 0 THEN 400
               ELSE 200
       IN  /\ Respond("update_duration", id, status)
           /\ IF status = 200
              THEN LET a == CHOOSE x \in assignments :
                                x.employee = e /\ x.work_block = id
                   IN  assignments' =
                           (assignments \ {a}) \cup {[a EXCEPT !.duration = d]}
              ELSE UNCHANGED assignments
           /\ UNCHANGED <<blocks, bonuses, contract, nextId, nextBonusId,
                          adminvars, history>>

(***************************************************************************)
(* views.py: the JSON endpoints of the administrator                       *)
(***************************************************************************)
\* dict.get(key, default)
Get(data, key, default) == IF key \in DOMAIN data THEN data[key] ELSE default

\* the loop "for employee_name in employee_names" of api_assign_employees:
\* a missing employee returns 400, a second row of the same (employee,
\* work_block) violates unique_together and is answered 500; the rows
\* created before stay
RECURSIVE assign_loop(_, _, _, _)
assign_loop(A, wb, names, i) ==
    IF i > Len(names) THEN [assignments |-> A, status |-> 200]
    ELSE IF names[i] \notin Employees THEN [assignments |-> A, status |-> 400]
    ELSE IF is_assigned(A, names[i], wb.id)
         THEN [assignments |-> A, status |-> 500]
    ELSE assign_loop(
            A \cup {[employee |-> names[i],
                     work_block |-> wb.id,
                     duration |-> wb.duration,
                     is_completed |-> FALSE,
                     completed_date |-> None,
                     receives_payment |-> TRUE,
                     hourly_rate_override |-> None]},
            wb, names, i + 1)

AssignInputs ==
    {<<>>, <<"Ana">>, <<"Ana", "Rui">>, <<"Rui", "Rui">>,
     <<"Ana", UnknownEmployee>>}

api_assign_employees(id, names) ==
    /\ nops < MaxOps
    /\ IF id = MissingId
       THEN /\ Respond("api_assign_employees", id, 400)
            /\ UNCHANGED <<dbvars, adminvars, history>>
       ELSE IF id \notin Ids
       THEN /\ Respond("api_assign_employees", id, 404)
            /\ UNCHANGED <<dbvars, adminvars, history>>
       ELSE LET cleared == assignments \ assignments_of(assignments, id)
                res == assign_loop(cleared, block_of(id), names, 1)
            IN  /\ assignments' = res.assignments
                /\ Respond("api_assign_employees", id, res.status)
                /\ UNCHANGED <<blocks, bonuses, contract, nextId,
                               nextBonusId, adminvars, history>>

api_delete_work_block(id) ==
    /\ nops < MaxOps
    /\ IF id \notin Ids
       THEN /\ Respond("api_delete_work_block", id, 404)
            /\ UNCHANGED <<dbvars, adminvars, history>>
       ELSE /\ blocks' = blocks \ {block_of(id)}
            /\ assignments' = assignments \ assignments_of(assignments, id)
            /\ Respond("api_delete_work_block", id, 200)
            /\ UNCHANGED <<bonuses, contract, nextId, nextBonusId,
                           adminvars, history>>

api_toggle_archive_work_block(id) ==
    /\ nops < MaxOps
    /\ IF id \notin Ids
       THEN /\ Respond("api_toggle_archive_work_block", id, 404)
            /\ UNCHANGED <<dbvars, adminvars, history>>
       ELSE LET b == block_of(id)
            IN  /\ blocks' = (blocks \ {b})
                                \cup {[b EXCEPT !.archived = ~b.archived]}
                /\ Respond("api_toggle_archive_work_block", id, 200)
                /\ UNCHANGED <<assignments, bonuses, contract, nextId,
                               nextBonusId, adminvars, history>>

\* edit_loop as it would run without unique_together on
\* (employee, work_block)
RECURSIVE edit_loop_not_unique(_, _, _, _)
edit_loop_not_unique(A, wb, emps, i) ==
    IF i > Len(emps) THEN [assignments |-> A, status |-> 200]
    ELSE IF emps[i].name \notin Employees
         THEN [assignments |-> A, status |-> 400]
    ELSE edit_loop_not_unique(
            A \cup {[employee |-> emps[i].name,
                     work_block |-> wb.id,
                     duration |-> Get(emps[i], "duration", wb.duration),
                     is_completed |-> Get(emps[i], "is_completed", FALSE),
                     completed_date |-> None,
                     receives_payment |->
                         Get(emps[i], "receives_payment", TRUE),
                     hourly_rate_override |->
                         Get(emps[i], "hourly_rate_override", None)]},
            wb, emps, i + 1)

\* the loop "for emp_data in employee_data" of api_edit_work_block; a
\* second row of the same (employee, work_block) violates unique_together
\* and is answered 500
RECURSIVE edit_loop(_, _, _, _)
edit_loop(A, wb, emps, i) ==
    IF i > Len(emps) THEN [assignments |-> A, status |-> 200]
    ELSE IF emps[i].name \notin Employees
         THEN [assignments |-> A, status |-> 400]
    ELSE IF is_assigned(A, emps[i].name, wb.id)
         THEN [assignments |-> A, status |-> 500]
    ELSE edit_loop(
            A \cup {[employee |-> emps[i].name,
                     work_block |-> wb.id,
                     duration |-> Get(emps[i], "duration", wb.duration),
                     is_completed |-> Get(emps[i], "is_completed", FALSE),
                     completed_date |-> None,
                     receives_payment |->
                         Get(emps[i], "receives_payment", TRUE),
                     hourly_rate_override |->
                         Get(emps[i], "hourly_rate_override", None)]},
            wb, emps, i + 1)

\* request bodies of api_edit_work_block
EditInputs ==
    {[name |-> "B"],
     [end_time |-> T(9, 0)],
     [hourly_value |-> 3000, client |-> "Acme",
      employees |-> <<[name |-> "Ana", duration |-> 200,
                       is_completed |-> TRUE],
                      [name |-> "Rui", receives_payment |-> FALSE,
                       hourly_rate_override |-> 1250]>>],
     [client |-> UnknownClient],
     [employees |-> <<[name |-> "Ana"], [name |-> UnknownEmployee]>>],
     [employees |-> <<[name |-> "Rui"],
                      [name |-> "Rui", duration |-> 200]>>]}

api_edit_work_block(id, data) ==
    /\ nops < MaxOps
    /\ IF id \notin Ids
       THEN /\ Respond("api_edit_work_block", id, 404)
            /\ UNCHANGED <<dbvars, adminvars, history>>
       ELSE LET b == block_of(id)
                b1 == [b EXCEPT
                         !.name = Get(data, "name", b.name),
                         !.localization =
                             Get(data, "localization", b.localization),
                         !.start_time = Get(data, "start_time", b.start_time),
                         !.end_time = Get(data, "end_time", b.end_time),
                         !.duration = Get(data, "duration", b.duration),
                         !.hourly_value =
                             Get(data, "hourly_value", b.hourly_value)]
                client_name == Get(data, "client", "")
            IN  IF client_name # "" /\ client_name \notin Clients
                THEN /\ Respond("api_edit_work_block", id, 400)
                     /\ UNCHANGED <<dbvars, adminvars, history>>
                ELSE LET b2 == IF client_name # ""
                               THEN [b1 EXCEPT !.client = client_name]
                               ELSE b1
                         cleared ==
                             assignments \ assignments_of(assignments, id)
                         res == edit_loop(cleared, b2,
                                          Get(data, "employees", <<>>), 1)
                     IN  /\ blocks' = (blocks \ {b}) \cup {b2}
                         /\ assignments' = res.assignments
                         /\ Respond("api_edit_work_block", id, res.status)
                         /\ UNCHANGED <<bonuses, contract, nextId,
                                        nextBonusId, adminvars, history>>

\* api_toggle_assignment_payment on the assignment a (a stored row)
api_toggle_assignment_payment(a, receives_payment) ==
    /\ nops < MaxOps
    /\ a \in assignments
    /\ assignments' = (assignments \ {a})
                        \cup {[a EXCEPT !.receives_payment = receives_payment]}
    /\ Respond("api_toggle_assignment_payment", a.work_block, 200)
    /\ UNCHANGED <<blocks, bonuses, contract, nextId, nextBonusId,
                   adminvars, history>>

\* api_update_assignment_hourly_rate on the assignment a (a stored row)
api_update_assignment_hourly_rate(a, rate) ==
    /\ nops < MaxOps
    /\ a \in assignments
    /\ assignments' = (assignments \ {a})
                        \cup {[a EXCEPT !.hourly_rate_override = rate]}
    /\ Respond("api_update_assignment_hourly_rate", a.work_block, 200)
    /\ UNCHANGED <<blocks, bonuses, contract, nextId, nextBonusId,
                   adminvars, history>>

\* api_add_bonus_penalty; amount 0 is a missing required field
api_add_bonus_penalty(e, type, amount, month, year) ==
    /\ nops < MaxOps
    /\ LET status ==
               IF amount = 0 THEN 400
               ELSE IF type \notin {"bonus", "penalty"} THEN 400
               ELSE IF amount <= 0 THEN 400
               ELSE IF e \notin Employees THEN 404
               ELSE 200
       IN  /\ Respond("api_add_bonus_penalty", MissingId, status)
           /\ IF status = 200
              THEN /\ bonuses' = bonuses \cup
                        {[id |-> nextBonusId, employee |-> e, type |-> type,
                          amount |-> amount, month |-> month, year |-> year]}
                   /\ nextBonusId' = nextBonusId + 1
              ELSE UNCHANGED <<bonuses, nextBonusId>>
           /\ UNCHANGED <<blocks, assignments, contract, nextId,
                          adminvars, history>>

api_delete_bonus_penalty(bp) ==
    /\ nops < MaxOps
    /\ bp \in bonuses
    /\ bonuses' = bonuses \ {bp}
    /\ Respond("api_delete_bonus_penalty", MissingId, 200)
    /\ UNCHANGED <<blocks, assignments, contract, nextId, nextBonusId,
                   adminvars, history>>

(***************************************************************************)
(* The requests, one at a time                                             *)
(***************************************************************************)
BlockIdInputs == Ids \cup {MissingId}

Next ==
    \/ \E form \in AddForms, inl \in InlineForms : AdminAdd(form, inl)
    \/ \E id \in Ids, k \in BOOLEAN, done \in Employees \cup {"-"} :
            AdminChange(id, k, done)
    \/ \E e \in Employees, r \in {None, 1500} : EmployeeAdminChange(e, r)
    \/ \E e \in Employees, id \in BlockIdInputs : toggle_completion(e, id)
    \/ \E e \in Employees, id \in BlockIdInputs, d \in {0, 200} :
            update_duration(e, id, d)
    \/ \E id \in BlockIdInputs, names \in AssignInputs :
            api_assign_employees(id, names)
    \/ \E id \in BlockIdInputs : api_delete_work_block(id)
    \/ \E id \in BlockIdInputs : api_toggle_archive_work_block(id)
    \/ \E id \in BlockIdInputs, data \in EditInputs :
            api_edit_work_block(id, data)
    \/ \E a \in assignments, p \in BOOLEAN :
            api_toggle_assignment_payment(a, p)
    \/ \E a \in assignments, r \in {None, 1250} :
            api_update_assignment_hourly_rate(a, r)
    \/ \E e \in Employees \cup {UnknownEmployee},
          type \in {"bonus", "penalty", "gift"},
          amount \in {1500, 0, -500}, month \in {2, 3} :
            api_add_bonus_penalty(e, type, amount, month, 2025)
    \/ \E bp \in bonuses : api_delete_bonus_penalty(bp)

Spec == Init /\ [][Next]_vars


(***************************************************************************)
(* Concurrent admin requests.  WorkBlockAdmin is one object shared by the  *)
(* server threads, so _is_new_constant_block and _original_block are       *)
(* shared; neither admin.py nor models.py takes a lock or declares a       *)
(* unique constraint on the occurrence key, so the statements of two       *)
(* requests interleave.  Each thread serves add requests: save_model, then *)
(* save_related, whose loop runs one query (the exists() check) or one     *)
(* creation per step.                                                      *)
(***************************************************************************)
\* requests each thread serves
MaxConcRequests == 1

ConcForms ==
    {BlockForm(17, 3, NoClient, TRUE),
     BlockForm(24, 3, NoClient, TRUE),
     BlockForm(17, 3, NoClient, FALSE)}

\* save_model of a new block, in thread t
ConcSaveModel(t, form, inl) ==
    /\ threads[t].pc = "idle"
    /\ threads[t].served < MaxConcRequests
    /\ clean(form)
    /\ LET obj == [id |-> nextId] @@ form
           flag == new_constant_flag(obj, FALSE)
       IN  /\ blocks' = blocks \cup {obj}
           /\ nextId' = nextId + 1
           /\ history' = history @@
                (obj.id :> [origin |-> 0, born_constant |-> obj.constant,
                            expansions |-> 0])
           /\ is_new_constant_block' = flag
           /\ original_block' = IF flag THEN <<obj>> ELSE original_block
           /\ threads' = [threads EXCEPT ![t] =
                [@ EXCEPT !.pc = "save_related", !.self = <<obj>>,
                          !.inl = inl]]
    /\ UNCHANGED <<assignments, bonuses, contract, nextBonusId, nops, last,
                   layout, formatting>>

\* save_related in thread t up to the loop: the inline rows of the thread's
\* own block are saved, then the shared flag and block are read
ConcSaveRelated(t) ==
    /\ threads[t].pc = "save_related"
    /\ assignments' = assignments \cup
            {inline_assignment(r, threads[t].self[1].id) : r \in threads[t].inl}
    /\ IF is_new_constant_block
       THEN LET obj == original_block[1]
            IN  IF ~ValidDate(obj.year, obj.month, obj.day_of_month)
                THEN /\ threads' = [threads EXCEPT ![t] =
                            [@ EXCEPT !.pc = "idle", !.served = @ + 1]]
                     /\ UNCHANGED history
                ELSE /\ threads' = [threads EXCEPT ![t] =
                            [@ EXCEPT !.pc = "loop", !.obj = <<obj>>,
                                      !.day = obj.day_of_month + 7]]
                     /\ history' = [history EXCEPT
                                        ![obj.id].expansions = @ + 1]
       ELSE /\ threads' = [threads EXCEPT ![t] =
                    [@ EXCEPT !.pc = "idle", !.served = @ + 1]]
            /\ UNCHANGED history
    /\ UNCHANGED <<blocks, bonuses, contract, nextId, nextBonusId, adminvars,
                   nops, last, layout, formatting>>

\* the head of the loop and the exists() query for the current day
ConcCheck(t) ==
    /\ threads[t].pc = "loop"
    /\ LET obj == threads[t].obj[1]
           day == threads[t].day
           last_day == monthrange(obj.year, obj.month)
           wd == weekday(obj.year, obj.month, obj.day_of_month)
       IN  threads' = [threads EXCEPT ![t] =
                IF day >= last_day + 1
                THEN [@ EXCEPT !.pc = "idle", !.served = @ + 1]
                ELSE IF /\ weekday(obj.year, obj.month, obj.day_of_month) = wd
                        /\ day <= last_day
                        /\ ~existing(blocks, obj, day)
                     THEN [@ EXCEPT !.pc = "create"]
                     ELSE [@ EXCEPT !.day = day + 7]]
    /\ UNCHANGED <<dbvars, adminvars, history, nops, last, layout, formatting>>

\* the creation of the occurrence and of the copies of the assignments
ConcCreate(t) ==
    /\ threads[t].pc = "create"
    /\ LET db == create_occurrence(
                    [blocks |-> blocks, assignments |-> assignments,
                     nextId |-> nextId, history |-> history],
                    threads[t].obj[1], threads[t].day)
       IN  /\ blocks' = db.blocks
           /\ assignments' = db.assignments
           /\ nextId' = db.nextId
           /\ history' = db.history
    /\ threads' = [threads EXCEPT ![t] =
            [@ EXCEPT !.pc = "loop", !.day = @ + 7]]
    /\ UNCHANGED <<bonuses, contract, nextBonusId, adminvars, nops, last,
                   layout, formatting>>

NextConc ==
    \/ \E t \in Threads, form \in ConcForms, inl \in InlineForms :
            ConcSaveModel(t, form, inl)
    \/ \E t \in Threads : ConcSaveRelated(t)
    \/ \E t \in Threads : ConcCheck(t)
    \/ \E t \in Threads : ConcCreate(t)

SpecConc == Init /\ [][NextConc]_vars

(***************************************************************************)
(* views.py: the day layout of index (employee_tasks repeats it line for   *)
(* line).  A block of the day is [id, start_time, end_time].  Percentages  *)
(* and pixels are kept as exact fractions [num, den]; the rounding of the  *)
(* binary floats of the code is not modelled.                              *)
(***************************************************************************)
\* blocks on one day
MaxDayBlocks == 3

Minutes(t) == t.hour * 60 + t.minute

\* blocks_overlap with closed boundaries
blocks_overlap_closed(block1, block2) ==
    LET start1 == block1.start_time.hour * 60 + block1.start_time.minute
        end1 == block1.end_time.hour * 60 + block1.end_time.minute
        start2 == block2.start_time.hour * 60 + block2.start_time.minute
        end2 == block2.end_time.hour * 60 + block2.end_time.minute
    IN  ~(end1 < start2 \/ end2 < start1)

\* blocks_overlap of index
blocks_overlap(block1, block2) ==
    LET start1 == block1.start_time.hour * 60 + block1.start_time.minute
        end1 == block1.end_time.hour * 60 + block1.end_time.minute
        start2 == block2.start_time.hour * 60 + block2.start_time.minute
        end2 == block2.end_time.hour * 60 + block2.end_time.minute
    IN  ~(end1 <= start2 \/ end2 <= start1)

\* blocks_overlap of employee_tasks
employee_tasks_blocks_overlap(block1, block2) ==
    LET start1 == block1.start_time.hour * 60 + block1.start_time.minute
        end1 == block1.end_time.hour * 60 + block1.end_time.minute
        start2 == block2.start_time.hour * 60 + block2.start_time.minute
        end2 == block2.end_time.hour * 60 + block2.end_time.minute
    IN  ~(end1 <= start2 \/ end2 <= start1)

\* the sort key (b.start_time, b.end_time): key of a <= key of b
KeyLE(a, b) ==
    \/ TimeLT(a.start_time, b.start_time)
    \/ (a.start_time = b.start_time /\ ~TimeLT(b.end_time, a.end_time))

\* list.sort(key=...): stable, so b goes after the elements whose key is
\* not greater
RECURSIVE insert_sorted(_, _)
insert_sorted(seq, b) ==
    IF seq = <<>> THEN <<b>>
    ELSE IF KeyLE(seq[Len(seq)], b) THEN Append(seq, b)
    ELSE Append(insert_sorted(SubSeq(seq, 1, Len(seq) - 1), b), seq[Len(seq)])

RECURSIVE sort_blocks(_)
sort_blocks(seq) ==
    IF seq = <<>> THEN <<>>
    ELSE insert_sorted(sort_blocks(SubSeq(seq, 1, Len(seq) - 1)), seq[Len(seq)])

\* the overlap test against the last block of the group only
overlaps_group_last(block, group) ==
    blocks_overlap(block, group[Len(group)])

\* any(blocks_overlap(block, existing_block) for existing_block in group)
overlaps_group(block, group) ==
    \E k \in 1..Len(group) : blocks_overlap(block, group[k])

\* the groups of `groups` without those whose index is in `drop`
RECURSIVE without_groups(_, _, _)
without_groups(groups, drop, i) ==
    IF i > Len(groups) THEN <<>>
    ELSE IF i \in drop THEN without_groups(groups, drop, i + 1)
    ELSE <<groups[i]>> \o without_groups(groups, drop, i + 1)

\* merged_group.extend(overlap_groups.pop(group_idx)) for the indices of
\* `drop` in descending order, from index i down
RECURSIVE extend_popped(_, _, _)
extend_popped(groups, drop, i) ==
    IF i < 1 THEN <<>>
    ELSE IF i \in drop THEN groups[i] \o extend_popped(groups, drop, i - 1)
    ELSE extend_popped(groups, drop, i - 1)

\* group_block adding the block to the first group instead of the group
\* it overlaps
group_block_first_group(overlap_groups, block) ==
    LET overlapping_groups ==
            {g \in 1..Len(overlap_groups) :
                overlaps_group(block, overlap_groups[g])}
    IN  IF overlapping_groups = {}
        THEN Append(overlap_groups, <<block>>)
        ELSE IF Cardinality(overlapping_groups) = 1
        THEN [overlap_groups EXCEPT ![1] = Append(@, block)]
        ELSE Append(
                without_groups(overlap_groups, overlapping_groups, 1),
                <<block>> \o extend_popped(overlap_groups, overlapping_groups,
                                           Len(overlap_groups)))

\* the body of "for block in day_blocks"
group_block(overlap_groups, block) ==
    LET overlapping_groups ==
            {g \in 1..Len(overlap_groups) :
                overlaps_group(block, overlap_groups[g])}
    IN  IF overlapping_groups = {}
        THEN Append(overlap_groups, <<block>>)
        ELSE IF Cardinality(overlapping_groups) = 1
        THEN LET g == CHOOSE x \in overlapping_groups : TRUE
             IN  [overlap_groups EXCEPT ![g] = Append(@, block)]
        ELSE Append(
                without_groups(overlap_groups, overlapping_groups, 1),
                <<block>> \o extend_popped(overlap_groups, overlapping_groups,
                                           Len(overlap_groups)))

Frac(n, d) == [num |-> n, den |-> d]

\* positioned with group_width = 100 / group_size, the margin forgotten
positioned_full_width(block, idx, group_size) ==
    LET start_minutes == block.start_time.hour * 60 + block.start_time.minute
        end_minutes == block.end_time.hour * 60 + block.end_time.minute
        duration_minutes == end_minutes - start_minutes
    IN  [block |-> block,
         top |-> Frac(48 * 3 + (start_minutes - 360) * 2, 3),
         height |-> IF duration_minutes * 2 >= 15 * 3
                    THEN Frac(duration_minutes * 2, 3) ELSE Frac(15 * 3, 3),
         width |-> Frac(100, group_size),
         left |-> Frac(2 * group_size + idx * (100 + group_size), group_size)]

\* one entry of positioned_blocks: the block at index idx (from 0) of a
\* sorted group of group_size blocks
positioned(block, idx, group_size) ==
    LET start_minutes == block.start_time.hour * 60 + block.start_time.minute
        end_minutes == block.end_time.hour * 60 + block.end_time.minute
        duration_minutes == end_minutes - start_minutes
    IN  [block |-> block,
         \* 48 + (start_minutes - 360) * (40/60)
         top |-> Frac(48 * 3 + (start_minutes - 360) * 2, 3),
         \* max(duration_minutes * (40/60), 15)
         height |-> IF duration_minutes * 2 >= 15 * 3
                    THEN Frac(duration_minutes * 2, 3) ELSE Frac(15 * 3, 3),
         \* group_width = 90 / group_size
         width |-> Frac(90, group_size),
         \* 2 + idx * (group_width + 1)
         left |-> Frac(2 * group_size + idx * (90 + group_size), group_size)]

\* the loop "for group in overlap_groups" from group g on
RECURSIVE position_groups(_, _)
position_groups(overlap_groups, g) ==
    IF g > Len(overlap_groups) THEN <<>>
    ELSE LET group == sort_blocks(overlap_groups[g])
         IN  [idx \in 1..Len(group) |->
                    positioned(group[idx], idx - 1, Len(group))]
                \o position_groups(overlap_groups, g + 1)

\* the times and the blocks of the days laid out
LayoutTimes == {T(9, 0), T(9, 30), T(10, 0), T(11, 0), T(11, 10)}

LayoutBlocks(id) ==
    {[id |-> id, start_time |-> se[1], end_time |-> se[2]] :
        se \in {x \in LayoutTimes \X LayoutTimes : TimeLT(x[1], x[2])}}

DayInputs ==
    UNION {{f \in [1..n -> UNION {LayoutBlocks(i) : i \in 1..n}] :
                \A i \in 1..n : f[i].id = i} : n \in 0..MaxDayBlocks}

InitLayout ==
    /\ EmptyStore
    /\ threads = [t \in Threads |-> IdleThread]
    /\ formatting = IdleFormatting
    /\ \E input \in DayInputs :
            layout = [IdleLayout EXCEPT !.pc = "sort", !.input = input]

\* day_blocks.sort(key=lambda b: (b.start_time, b.end_time))
LayoutSort ==
    /\ layout.pc = "sort"
    /\ layout' = [layout EXCEPT !.pc = "group",
                                !.day_blocks = sort_blocks(layout.input),
                                !.next = 1]
    /\ UNCHANGED <<dbvars, adminvars, history, nops, last, threads,
                   formatting>>

\* one iteration of "for block in day_blocks"
LayoutGroup ==
    /\ layout.pc = "group"
    /\ layout.next <= Len(layout.day_blocks)
    /\ layout' = [layout EXCEPT
            !.overlap_groups = group_block(@, layout.day_blocks[layout.next]),
            !.next = @ + 1]
    /\ UNCHANGED <<dbvars, adminvars, history, nops, last, threads,
                   formatting>>

\* the positioning loop over the groups
LayoutPosition ==
    /\ layout.pc = "group"
    /\ layout.next > Len(layout.day_blocks)
    /\ layout' = [layout EXCEPT
            !.pc = "done",
            !.positioned_blocks = position_groups(layout.overlap_groups, 1)]
    /\ UNCHANGED <<dbvars, adminvars, history, nops, last, threads,
                   formatting>>

NextLayout == LayoutSort \/ LayoutGroup \/ LayoutPosition

SpecLayout == InitLayout /\ [][NextLayout]_vars

\* the loop "for block in day_blocks" from index i on
RECURSIVE group_from(_, _, _)
group_from(overlap_groups, day_blocks, i) ==
    IF i > Len(day_blocks) THEN overlap_groups
    ELSE group_from(group_block(overlap_groups, day_blocks[i]),
                    day_blocks, i + 1)

\* the overlap groups index builds for the blocks of a day
overlap_groups_of(day_blocks) ==
    group_from(<<>>, sort_blocks(day_blocks), 1)

\* the day's blocks as the queryset may return them: api_edit_work_block
\* stores start_time and end_time without clean(), so a stored block may
\* have start_time >= end_time
StoredTimes == {T(9, 0), T(9, 30), T(10, 0)}

StoredBlocks(id) ==
    {[id |-> id, start_time |-> se[1], end_time |-> se[2]] :
        se \in StoredTimes \X StoredTimes}

StoredDayInputs ==
    UNION {{f \in [1..n -> UNION {StoredBlocks(i) : i \in 1..n}] :
                \A i \in 1..n : f[i].id = i} : n \in 0..MaxDayBlocks}

InitLayoutStored ==
    /\ EmptyStore
    /\ threads = [t \in Threads |-> IdleThread]
    /\ formatting = IdleFormatting
    /\ \E input \in StoredDayInputs :
            layout = [IdleLayout EXCEPT !.pc = "sort", !.input = input]

SpecLayoutStored == InitLayoutStored /\ [][NextLayout]_vars

\* a crowded day: up to MaxCrowd blocks, each on one of two shifts that
\* overlap
MaxCrowd == 10

CrowdShifts == {<<T(9, 0), T(10, 0)>>, <<T(9, 30), T(11, 0)>>}

CrowdDayInputs ==
    UNION {{[i \in 1..n |-> [id |-> i, start_time |-> c[i][1],
                                       end_time |-> c[i][2]]] :
                c \in [1..n -> CrowdShifts]} : n \in 1..MaxCrowd}

InitLayoutCrowd ==
    /\ EmptyStore
    /\ threads = [t \in Threads |-> IdleThread]
    /\ formatting = IdleFormatting
    /\ \E input \in CrowdDayInputs :
            layout = [IdleLayout EXCEPT !.pc = "sort", !.input = input]

SpecLayoutCrowd == InitLayoutCrowd /\ [][NextLayout]_vars


(***************************************************************************)
(* views.py and templatetags/duration_filters.py: the duration formatters. *)
(* A duration is a Decimal with two decimals, here in hundredths of an     *)
(* hour.  The text f"{hours}h" or f"{hours}h{minutes:02d}m" is the record  *)
(* of its hours and of the digits of its minutes (<<>> without minutes).   *)
(***************************************************************************)
MaxDuration == 250

\* f"{minutes:02d}"
two_digits(n) == IF n < 100 THEN <<n \div 10, n % 10>>
                 ELSE <<n \div 100, (n \div 10) % 10, n % 10>>

\* format_duration taking the decimals of the hours for the minutes
format_duration_hundredths(decimal_hours) ==
    IF decimal_hours = None THEN [hours |-> 0, minutes |-> <<>>]
    ELSE LET hours == decimal_hours \div 100
             minutes == decimal_hours - hours * 100
         IN  IF minutes = 0 THEN [hours |-> hours, minutes |-> <<>>]
             ELSE [hours |-> hours, minutes |-> two_digits(minutes)]

\* format_duration of views.py; int() truncates, and the values are not
\* negative
format_duration(decimal_hours) ==
    IF decimal_hours = None THEN [hours |-> 0, minutes |-> <<>>]
    ELSE LET hours == decimal_hours \div 100
             minutes == ((decimal_hours - hours * 100) * 60) \div 100
         IN  IF minutes = 0 THEN [hours |-> hours, minutes |-> <<>>]
             ELSE [hours |-> hours, minutes |-> two_digits(minutes)]

\* the template filter duration_format
duration_format(value) ==
    IF value = None THEN [hours |-> 0, minutes |-> <<>>]
    ELSE LET decimal_hours == value
             hours == decimal_hours \div 100
             minutes == ((decimal_hours - hours * 100) * 60) \div 100
         IN  IF minutes = 0 THEN [hours |-> hours, minutes |-> <<>>]
             ELSE [hours |-> hours, minutes |-> two_digits(minutes)]

\* the number a sequence of decimal digits writes
RECURSIVE digits_value(_)
digits_value(ds) ==
    IF ds = <<>> THEN 0
    ELSE 10 * digits_value(SubSeq(ds, 1, Len(ds) - 1)) + ds[Len(ds)]

\* parseDuration: the hours plus the minutes over 60, as a fraction of
\* hours
parseDuration(text) ==
    Frac(text.hours * 60 + digits_value(text.minutes), 60)

DurationInputs == (0..MaxDuration) \cup {None}

InitDuration ==
    /\ EmptyStore
    /\ threads = [t \in Threads |-> IdleThread]
    /\ layout = IdleLayout
    /\ \E d \in DurationInputs :
       \E f \in {"format_duration", "duration_format"} :
            formatting = [IdleFormatting EXCEPT !.pc = "format",
                                                !.formatter = f,
                                                !.value = d]

\* the call of format_duration or of the filter
FormatDuration ==
    /\ formatting.pc = "format"
    /\ formatting' = [formatting EXCEPT
            !.pc = "parse",
            !.text = IF formatting.formatter = "format_duration"
                     THEN format_duration(formatting.value)
                     ELSE duration_format(formatting.value)]
    /\ UNCHANGED <<dbvars, adminvars, history, nops, last, threads, layout>>

\* the text read back
ParseDuration ==
    /\ formatting.pc = "parse"
    /\ formatting' = [formatting EXCEPT
            !.pc = "done",
            !.parsed = parseDuration(formatting.text)]
    /\ UNCHANGED <<dbvars, adminvars, history, nops, last, threads, layout>>

NextDuration == FormatDuration \/ ParseDuration

SpecDuration == InitDuration /\ [][NextDuration]_vars

(***************************************************************************)
(* Properties of the rate resolution and of the monthly report             *)
(***************************************************************************)
\* the months a report is asked for
ReportMonths == {<<2025, 2>>, <<2025, 3>>}

\* the rate the resolution order prescribes: the override when set, else
\* the contract rate when the employee has one, else zero
ResolvedRate(a) ==
    CASE a.hourly_rate_override # None -> a.hourly_rate_override
      [] a.hourly_rate_override = None /\ contract[a.employee] # None ->
            contract[a.employee]
      [] OTHER -> 0

C2_EmployeePayment ==
    \A a \in assignments :
        /\ ~a.receives_payment => get_employee_payment(contract, a) = 0
        /\ a.receives_payment =>
                get_employee_payment(contract, a) = a.duration * ResolvedRate(a)

\* an unpaid assignment with a positive duration and a positive rate
C2_Witness ==
    \E a \in assignments :
        /\ ~a.receives_payment
        /\ a.duration > 0
        /\ ResolvedRate(a) > 0

\* the same assignment (employee, block) before and after a step
SameAssignment(a1, a2) ==
    a1.employee = a2.employee /\ a1.work_block = a2.work_block

HourlyValueOf(B, id) == (CHOOSE b \in B : b.id = id).hourly_value

\* C3: the client cost of an assignment is its duration times the
\* hourly_value of its block, and a step that changes receives_payment, the
\* override or the contract rate of the employee (and neither the duration
\* nor the block's hourly_value) leaves the client cost as it was.
C3_ClientCost ==
    [][/\ \A a \in assignments' :
            get_client_cost(blocks', a)
                = a.duration * HourlyValueOf(blocks', a.work_block)
       /\ \A a1 \in assignments : \A a2 \in assignments' :
            (/\ SameAssignment(a1, a2)
             /\ a1.duration = a2.duration
             /\ a1.work_block \in {b.id : b \in blocks'}
             /\ HourlyValueOf(blocks, a1.work_block)
                    = HourlyValueOf(blocks', a2.work_block))
                => get_client_cost(blocks', a2) = get_client_cost(blocks, a1)
      ]_vars

\* an assignment whose payment was just switched off, or whose override or
\* contract rate was just changed, and that still costs the client money
C3_Witness ==
    /\ last.op \in {"api_toggle_assignment_payment",
                    "api_update_assignment_hourly_rate", "employee_change"}
    /\ \E a \in assignments :
            /\ get_client_cost(blocks, a) > 0
            /\ get_employee_payment(contract, a) # get_client_cost(blocks, a)
            /\ \/ ~a.receives_payment
               \/ last.op # "api_toggle_assignment_payment"

\* the adjustment the claim states: +amount for a bonus, -amount for a
\* penalty, over the rows of employee e for month m of year y
StatedAdjustment(e, y, m) ==
    LET S == {bp \in bonuses : bp.employee = e /\ bp.month = m /\ bp.year = y}
    IN  SumF([bp \in S |-> IF bp.type = "bonus" THEN bp.amount
                           ELSE -bp.amount], S)

\* the value earned the claim states: the payments of the completed
\* assignments of e on the non-archived blocks of the month
StatedValueEarned(e, y, m) ==
    LET S == {a \in assignments :
                /\ a.employee = e
                /\ a.is_completed
                /\ \E b \in blocks :
                      /\ b.id = a.work_block
                      /\ b.year = y /\ b.month = m /\ ~b.archived}
    IN  SumF([a \in S |-> get_employee_payment(contract, a)], S)

\* C4: in the report of every month and for every employee,
\* final_value_earned is total_value_earned (the payments of the employee's
\* completed assignments on non-archived blocks of that month) plus the
\* signed amounts of the employee's BonusPenalty rows of that month and year
\* (+amount for a bonus, -amount for a penalty); the rows of other employees
\* and of other months do not contribute.
C4_FinalValueEarned ==
    \A e \in Employees : \A ym \in ReportMonths :
        /\ total_value_earned(blocks, assignments, contract, e, ym[1], ym[2])
                = StatedValueEarned(e, ym[1], ym[2])
        /\ final_value_earned(blocks, assignments, bonuses, contract,
                              e, ym[1], ym[2])
                = StatedValueEarned(e, ym[1], ym[2])
                    + 100 * StatedAdjustment(e, ym[1], ym[2])

\* Ana earned 35.00 in March 2025 and a penalty of 15.00 leaves 20.00
C4_Witness ==
    /\ total_value_earned(blocks, assignments, contract, "Ana", 2025, 3)
            = 350000
    /\ \E bp \in bonuses :
            bp.employee = "Ana" /\ bp.type = "penalty" /\ bp.month = 3
    /\ final_value_earned(blocks, assignments, bonuses, contract,
                          "Ana", 2025, 3) = 200000


(***************************************************************************)
(* Properties of the recurrence expansion                                  *)
(***************************************************************************)
\* the step just taken is a request of handler op
Served(op) == nops' = nops + 1 /\ last'.op = op

\* the last day of the months the forms name: February and March 2025,
\* December 2024
StatedLastDay(m) == CASE m = 2 -> 28 [] m = 3 -> 31 [] m = 12 -> 31

\* the days d+7, d+14, ... up to the last day L
StatedDays(d, L) == {d + 7 * k : k \in 1..4} \cap (1..L)

\* a constant block of B on `day` with the name, location, client, month,
\* year, start and end time of t
StatedMatch(B, t, day) ==
    \E b \in B :
        /\ <<b.name, b.localization, b.client, b.month, b.year,
             b.start_time, b.end_time>>
            = <<t.name, t.localization, t.client, t.month, t.year,
                t.start_time, t.end_time>>
        /\ b.day_of_month = day
        /\ b.constant

\* C5: the admin creation of a constant block t with day d in a month whose
\* last day is L creates exactly one more block on each day of d+7, d+14, ...
\* <= L that had no matching block before the request, and no block on any
\* other day; the creation of a block that is not constant creates no
\* further block.
C5_ExpansionDays ==
    [][(Served("admin_add") /\ last'.status = 302) =>
        LET t == CHOOSE b \in blocks' : b.id = nextId
            created == {b \in blocks' : b.id > nextId}
            L == StatedLastDay(t.month)
        IN  /\ blocks' = blocks \cup {t} \cup created
            /\ \A day \in 1..31 :
                    Cardinality({b \in created : b.day_of_month = day})
                        = IF /\ t.constant
                             /\ day \in StatedDays(t.day_of_month, L)
                             /\ ~StatedMatch(blocks, t, day)
                          THEN 1 ELSE 0
            /\ \A b \in created : b.day_of_month \in 1..31
      ]_vars

\* a constant block of day 3 of March was created with no matching block
\* stored, and the days 10, 17, 24 and 31 got one occurrence each
C5_Witness ==
    /\ last.op = "admin_add" /\ last.status = 302
    /\ last.block \in Ids
    /\ block_of(last.block).day_of_month = 3
    /\ block_of(last.block).month = 3
    /\ block_of(last.block).constant
    /\ {b.day_of_month : b \in {x \in blocks :
            history[x.id].origin = last.block}} = {10, 17, 24, 31}
    /\ Cardinality(blocks) = 5

\* C6: the expansion ran exactly once for every block an admin form created
\* constant, by the end of the request that created it, and never for any
\* other block; a request that saves an existing block (also one that
\* switches constant on) creates no block and runs no expansion.
C6_ExpansionOnce ==
    [][/\ \A id \in DOMAIN history' :
            history'[id].expansions
                = IF history'[id].origin = 0 /\ history'[id].born_constant
                  THEN 1 ELSE 0
       /\ Served("admin_change") =>
            /\ {b.id : b \in blocks'} = {b.id : b \in blocks}
            /\ history' = history
      ]_vars

\* a block that an admin form created not constant has just been saved with
\* constant switched on: no expansion ran for it
C6_Witness ==
    /\ last.op = "admin_change" /\ last.status = 302
    /\ block_of(last.block).constant
    /\ history[last.block].origin = 0
    /\ ~history[last.block].born_constant
    /\ history[last.block].expansions = 0
    /\ is_new_constant_block = FALSE

\* the stored state the expansion works on
StoredState ==
    [blocks |-> blocks, assignments |-> assignments, nextId |-> nextId,
     history |-> history]

\* C7: for every stored constant block t, a candidate day that already has
\* a matching occurrence is skipped (no block and no assignment is created
\* for it), and expanding t a second time changes nothing: the blocks and
\* assignments after two expansions are those after one.
C7_Idempotent ==
    \A t \in blocks :
        (t.constant /\ ValidDate(t.year, t.month, t.day_of_month)) =>
            LET L == StatedLastDay(t.month)
                once == expand(StoredState, t)
            IN  /\ \A day \in StatedDays(t.day_of_month, L) :
                        StatedMatch(blocks, t, day) =>
                            expand_day(StoredState, t, day, L) = StoredState
                /\ expand(once, t) = once

\* a constant block was created whose candidate days all had a matching
\* occurrence: the request created the block and nothing else
C7_Witness ==
    /\ last.op = "admin_add" /\ last.status = 302
    /\ last.block \in Ids
    /\ block_of(last.block).constant
    /\ StatedDays(block_of(last.block).day_of_month,
                  StatedLastDay(block_of(last.block).month)) # {}
    /\ history[last.block].expansions = 1
    /\ \A id \in DOMAIN history : history[id].origin # last.block
    /\ \A a \in assignments : a.work_block <= last.block

\* the requests that edit one block
OccurrenceEdits ==
    {"toggle_completion", "update_duration", "api_assign_employees",
     "api_edit_work_block", "api_toggle_archive_work_block",
     "api_delete_work_block"}

\* C9: a request of toggle_completion, update_duration,
\* api_assign_employees, api_edit_work_block, api_toggle_archive_work_block
\* or api_delete_work_block on one block leaves every other block (so the
\* template and the sibling occurrences of an occurrence) with the same
\* fields and the same assignments.
C9_EditFrame ==
    [][(nops' = nops + 1 /\ last'.op \in OccurrenceEdits) =>
        \A b \in blocks :
            b.id # last'.block =>
                /\ b \in blocks'
                /\ {a \in assignments' : a.work_block = b.id}
                    = {a \in assignments : a.work_block = b.id}
      ]_vars

\* an occurrence was renamed and lost its assignments by api_edit_work_block
\* while its template and a sibling keep their name and their assignments
C9_Witness ==
    /\ last.op = "api_edit_work_block" /\ last.status = 200
    /\ last.block \in Ids
    /\ history[last.block].origin # 0
    /\ block_of(last.block).name = "B"
    /\ {a \in assignments : a.work_block = last.block} = {}
    /\ \E t \in blocks : \E s \in blocks :
            /\ t.id = history[last.block].origin
            /\ s.id # last.block
            /\ history[s.id].origin = t.id
            /\ t.name = "A" /\ s.name = "A"
            /\ {a \in assignments : a.work_block = t.id} # {}
            /\ {a \in assignments : a.work_block = s.id} # {}


(***************************************************************************)
(* Properties of concurrent expansions                                     *)
(***************************************************************************)
\* the key that makes two occurrences the same occurrence
OccurrenceKey(b) ==
    <<b.name, b.localization, b.client, b.day_of_month, b.month, b.year,
      b.start_time, b.end_time>>

\* C8: whatever the interleaving of the concurrent expansions of two
\* equivalent constant templates, the exists() check and the creation act
\* as one atomic step: the two expansions never both create an occurrence
\* for the same key and day.
C8_AtMostOneOccurrence ==
    \A b1 \in blocks : \A b2 \in blocks :
        (/\ history[b1.id].origin # 0
         /\ history[b2.id].origin # 0
         /\ history[b1.id].origin # history[b2.id].origin
         /\ history[history[b1.id].origin].born_constant
         /\ history[history[b2.id].origin].born_constant
         /\ b1.constant /\ b2.constant
         /\ OccurrenceKey(b1) = OccurrenceKey(b2))
            => b1.id = b2.id


(***************************************************************************)
(* Properties of the overlap test                                          *)
(***************************************************************************)
Max2(a, b) == IF a >= b THEN a ELSE b

Min2(a, b) == IF a <= b THEN a ELSE b

\* the open intervals of a and b share a minute
Intersect(a, b) ==
    Max2(Minutes(a.start_time), Minutes(b.start_time))
        < Min2(Minutes(a.end_time), Minutes(b.end_time))

\* C10: for every pair of blocks A, B of the day laid out, blocks_overlap
\* (of index and of employee_tasks) gives the same answer for (A, B) and
\* (B, A), the answer is not (endA <= startB or endB <= startA) in minutes,
\* so the intervals intersect with open boundaries, and two blocks of which
\* one ends exactly when the other starts do not overlap.
C10_OverlapSymmetric ==
    \A i \in 1..Len(layout.input) : \A j \in 1..Len(layout.input) :
        LET A == layout.input[i]
            B == layout.input[j]
        IN  /\ blocks_overlap(A, B) = blocks_overlap(B, A)
            /\ blocks_overlap(A, B)
                = ~(\/ Minutes(A.end_time) <= Minutes(B.start_time)
                    \/ Minutes(B.end_time) <= Minutes(A.start_time))
            /\ blocks_overlap(A, B) = Intersect(A, B)
            /\ employee_tasks_blocks_overlap(A, B) = blocks_overlap(A, B)
            /\ (A.end_time = B.start_time) => ~blocks_overlap(A, B)

\* a day with two back-to-back blocks and a third that overlaps one of them
\* was grouped: the back-to-back pair is in different groups
C10_Witness ==
    /\ layout.pc = "done"
    /\ Len(layout.overlap_groups) = 2
    /\ \E i \in 1..Len(layout.input) : \E j \in 1..Len(layout.input) :
        \E k \in 1..Len(layout.input) :
            /\ layout.input[i].end_time = layout.input[j].start_time
            /\ ~blocks_overlap(layout.input[i], layout.input[j])
            /\ blocks_overlap(layout.input[j], layout.input[k])
            /\ ~blocks_overlap(layout.input[i], layout.input[k])
            /\ \E g \in 1..2 :
                    /\ layout.overlap_groups[g] = <<layout.input[i]>>


(***************************************************************************)
(* Properties of the overlap clusters                                      *)
(***************************************************************************)
\* the blocks of the day laid out
InputBlocks == {layout.input[i] : i \in 1..Len(layout.input)}

\* the blocks of S linked to a block of C by a chain of blocks of S whose
\* open intervals intersect pairwise
RECURSIVE Chained(_, _)
Chained(S, C) ==
    LET N == C \cup {x \in S : \E y \in C : Intersect(x, y)}
    IN  IF N = C THEN C ELSE Chained(S, N)

\* C11 as stated: a block whose end time equals the start time of another
\* block is never in the same overlap cluster as that other block.
C11_BackToBackApart ==
    layout.pc = "done" =>
        \A g \in 1..Len(layout.overlap_groups) :
            \A k \in 1..Len(layout.overlap_groups[g]) :
                \A l \in 1..Len(layout.overlap_groups[g]) :
                    layout.overlap_groups[g][k].end_time
                        # layout.overlap_groups[g][l].start_time

\* C11 amended: a block whose end time equals the start time of another
\* block does not overlap it, and the two are in the same overlap cluster
\* only when a chain of pairwise overlapping blocks of the day links them
\* through other blocks; without such a chain they are in different
\* clusters.
C11_BackToBackChained ==
    layout.pc = "done" =>
        \A g \in 1..Len(layout.overlap_groups) :
            \A k \in 1..Len(layout.overlap_groups[g]) :
                \A l \in 1..Len(layout.overlap_groups[g]) :
                    LET A == layout.overlap_groups[g][k]
                        B == layout.overlap_groups[g][l]
                    IN  A.end_time = B.start_time =>
                            /\ ~Intersect(A, B)
                            /\ Len(layout.overlap_groups[g]) >= 3
                            /\ B \in Chained(InputBlocks, {A})

\* 09:00-09:30 and 09:30-10:00 share a cluster with 09:00-10:00, which
\* overlaps both
C11_Witness ==
    /\ layout.pc = "done"
    /\ Len(layout.overlap_groups) = 1
    /\ Len(layout.overlap_groups[1]) = 3
    /\ \E k \in 1..3 : \E l \in 1..3 : \E m \in 1..3 :
        LET A == layout.overlap_groups[1][k]
            B == layout.overlap_groups[1][l]
            C == layout.overlap_groups[1][m]
        IN  /\ A.end_time = B.start_time
            /\ C.start_time = A.start_time /\ C.end_time = B.end_time
            /\ blocks_overlap(C, A) /\ blocks_overlap(C, B)


(***************************************************************************)
(* Properties of the clustering of any stored blocks                       *)
(***************************************************************************)
\* the orders of a list of n blocks
Orders(n) == {p \in [1..n -> 1..n] : \A i \in 1..n : \A j \in 1..n :
                                        p[i] = p[j] => i = j}

\* the set partition of the blocks (by id) that a list of groups makes
Partition(groups) ==
    {{groups[g][k].id : k \in 1..Len(groups[g])} : g \in 1..Len(groups)}

\* C12: for every list of a day's blocks and every permutation of it, the
\* sort and the grouping loop yield the same set partition of the blocks
\* into overlap clusters.
C12_OrderIndependent ==
    layout.pc = "done" =>
        \A p \in Orders(Len(layout.input)) :
            Partition(overlap_groups_of(
                    [i \in 1..Len(layout.input) |-> layout.input[p[i]]]))
                = Partition(layout.overlap_groups)

\* a day of three blocks given out of order was clustered in two clusters,
\* one of two blocks
C12_Witness ==
    /\ layout.pc = "done"
    /\ Len(layout.input) = 3
    /\ layout.input # layout.day_blocks
    /\ Len(layout.overlap_groups) = 2
    /\ \E g \in 1..2 : Len(layout.overlap_groups[g]) = 2


(***************************************************************************)
(* Properties of the widths                                                *)
(***************************************************************************)
\* the entries of positioned_blocks of the blocks of one group
EntriesOf(group) ==
    {e \in 1..Len(layout.positioned_blocks) :
        \E k \in 1..Len(group) :
            layout.positioned_blocks[e].block = group[k]}

\* C13: every overlap cluster of n >= 1 blocks gives each of its blocks
\* the width 90/n, and the widths of the cluster sum to at most 90 (here
\* in units of 1/n percent: the sum of the numerators is at most 90 * n).
C13_ClusterWidths ==
    layout.pc = "done" =>
        \A g \in 1..Len(layout.overlap_groups) :
            LET group == layout.overlap_groups[g]
                n == Len(group)
                entries == EntriesOf(group)
                num == [e \in entries |->
                            layout.positioned_blocks[e].width.num]
            IN  /\ n >= 1
                /\ Cardinality(entries) = n
                /\ \A e \in entries :
                        /\ layout.positioned_blocks[e].width.den = n
                        /\ layout.positioned_blocks[e].width.num = 90
                /\ SumF(num, entries) <= 90 * n

\* a day with a cluster of two blocks (45 each) and a cluster of one (90)
C13_Witness ==
    /\ layout.pc = "done"
    /\ Len(layout.positioned_blocks) = 3
    /\ \E e \in 1..Len(layout.positioned_blocks) :
            layout.positioned_blocks[e].width = Frac(90, 2)
    /\ \E e \in 1..Len(layout.positioned_blocks) :
            layout.positioned_blocks[e].width = Frac(90, 1)


(***************************************************************************)
(* Properties of the stored rows                                           *)
(***************************************************************************)
\* C14: every stored WorkBlock has start_time < end_time and
\* 1 <= day_of_month <= 31, in every reachable state: a request that would
\* store start_time >= end_time or a bad day_of_month is rejected and
\* leaves the block as it was.
C14_ValidBlocks ==
    \A b \in blocks :
        /\ TimeLT(b.start_time, b.end_time)
        /\ 1 <= b.day_of_month /\ b.day_of_month <= 31

\* C15: in every reachable state there is at most one assignment per
\* (employee, work block) pair, also after requests whose employee list
\* names the same employee twice.
C15_UniqueAssignment ==
    \A a1 \in assignments : \A a2 \in assignments :
        (a1.employee = a2.employee /\ a1.work_block = a2.work_block)
            => a1 = a2

\* api_edit_work_block was sent Rui twice: the first row is stored, the
\* second is refused
C15_Witness ==
    /\ last.op = "api_edit_work_block"
    /\ last.status = 500
    /\ \E a \in assignments :
            /\ a.employee = "Rui" /\ a.work_block = last.block
            /\ a.duration = 350

\* C16: is_completed and completed_date are set together: in every
\* reachable state every assignment has a completed_date if and only if
\* its is_completed is true.
C16_CompletedTogether ==
    \A a \in assignments : (a.completed_date # None) <=> a.is_completed


(***************************************************************************)
(* Properties of the monthly report                                        *)
(***************************************************************************)
\* the stored rows without the archived blocks and their assignments
Unarchived == {b \in blocks : ~b.archived}

UnarchivedAssignments ==
    {a \in assignments : ~work_block(blocks, a).archived}

\* what the completed assignments of employee e on block b add to the
\* hours worked of month (y, m)
HoursOn(b, e, y, m) ==
    LET S == {a \in assignments :
                /\ a.employee = e /\ a.work_block = b.id /\ a.is_completed}
    IN  IF b.year = y /\ b.month = m
        THEN SumF([a \in S |-> a.duration], S) ELSE 0

\* C17: the monthly report is computed over the non-archived blocks only:
\* every employee total and every client total is the one computed after
\* removing the archived blocks and their assignments; archiving a block
\* with api_toggle_archive_work_block takes exactly the hours of its
\* completed assignments out of the hours worked, and unarchiving it puts
\* them back.
C17_ReportSkipsArchived ==
    /\ [](\A ym \in ReportMonths :
            admin_statistics(blocks, assignments, bonuses, contract,
                             ym[1], ym[2])
              = admin_statistics(Unarchived, UnarchivedAssignments, bonuses,
                                 contract, ym[1], ym[2]))
    /\ [][(/\ nops' = nops + 1
           /\ last'.op = "api_toggle_archive_work_block"
           /\ last'.status = 200) =>
            \A ym \in ReportMonths : \A e \in Employees :
                LET b == block_of(last'.block)
                    before == total_hours_worked(blocks, assignments, e,
                                                 ym[1], ym[2])
                    after == total_hours_worked(blocks', assignments', e,
                                                ym[1], ym[2])
                IN  after = IF b.archived
                            THEN before + HoursOn(b, e, ym[1], ym[2])
                            ELSE before - HoursOn(b, e, ym[1], ym[2])
         ]_vars

\* the block of March with Ana's completed 3.50 hours for Acme was
\* archived: the report of March has no hours for Ana and no entry for Acme
C17_Witness ==
    /\ last.op = "api_toggle_archive_work_block"
    /\ last.status = 200
    /\ \E b \in blocks :
            /\ b.id = last.block /\ b.archived
            /\ b.month = 3 /\ b.client = "Acme"
            /\ \E a \in assignments :
                    /\ a.work_block = b.id /\ a.employee = "Ana"
                    /\ a.is_completed /\ a.duration = 350
    /\ admin_statistics(blocks, assignments, bonuses, contract, 2025, 3)
            .employee_stats["Ana"].total_hours_worked = 0
    /\ "Acme" \notin DOMAIN admin_statistics(blocks, assignments, bonuses,
                                             contract, 2025, 3).client_stats

\* C18: every employee and every client with no completed assignment on a
\* non-archived block of the report month is in the monthly report with
\* totals equal to zero, and the report does not raise.
C18_ZeroRowsReported ==
    \A ym \in ReportMonths :
        LET r == admin_statistics(blocks, assignments, bonuses, contract,
                                  ym[1], ym[2])
        IN  /\ ~r.raised
            /\ \A e \in Employees :
                    completed_assignments(blocks, assignments, e,
                                          ym[1], ym[2]) = {}
                        => /\ e \in DOMAIN r.employee_stats
                           /\ r.employee_stats[e].total_hours_worked = 0
                           /\ r.employee_stats[e].total_value_earned = 0
            /\ \A c \in Clients :
                    client_completed_assignments(blocks, assignments, c,
                                                 ym[1], ym[2]) = {}
                        => /\ c \in DOMAIN r.client_stats
                           /\ r.client_stats[c].total_hours = 0
                           /\ r.client_stats[c].total_value = 0
                           /\ r.client_stats[c].unique_workers = 0


(***************************************************************************)
(* Properties of the duration formatters                                   *)
(***************************************************************************)
\* d hundredths of an hour are a whole number of minutes
WholeMinutes(d) == (d * 60) % 100 = 0

\* C19: for every non-negative duration d that is a whole number of
\* minutes, the text of format_duration (and of the filter
\* duration_format) reads back as d; whole hours are written without
\* minutes, and the minutes written are two digits of a number in 0..59.
C19_DurationRoundTrip ==
    /\ (formatting.pc \in {"parse", "done"} /\ formatting.value # None) =>
            /\ formatting.value % 100 = 0 => formatting.text.minutes = <<>>
            /\ formatting.text.hours = formatting.value \div 100
            /\ formatting.text.minutes # <<>> =>
                    /\ Len(formatting.text.minutes) = 2
                    /\ digits_value(formatting.text.minutes) \in 1..59
    /\ (formatting.pc = "done" /\ formatting.value # None
            /\ WholeMinutes(formatting.value)) =>
            formatting.parsed.num * 100
                = formatting.value * formatting.parsed.den

\* 2.25 was written "2h15m" and read back as 135/60 hours
C19_Witness ==
    /\ formatting.pc = "done"
    /\ formatting.value = 225
    /\ formatting.text = [hours |-> 2, minutes |-> <<1, 5>>]
    /\ formatting.parsed = Frac(135, 60)


(***************************************************************************)
(* The overlap clusters as connected components                            *)
(***************************************************************************)
\* the overlap of two blocks as the specification states it
StatedOverlap(a, b) ==
    ~(\/ Minutes(a.end_time) <= Minutes(b.start_time)
      \/ Minutes(b.end_time) <= Minutes(a.start_time))

\* the blocks of S linked to a block of C by a chain of pairwise
\* overlapping blocks of S
RECURSIVE Linked(_, _)
Linked(S, C) ==
    LET N == C \cup {x \in S : \E y \in C : StatedOverlap(x, y)}
    IN  IF N = C THEN C ELSE Linked(S, N)

\* the places <<g, k>> of the overlap groups
Places ==
    {gk \in (1..Len(layout.overlap_groups)) \X (1..Len(layout.input)) :
        gk[2] <= Len(layout.overlap_groups[gk[1]])}

\* C20: the overlap clusters of a day are the connected components of the
\* overlap graph: every block of the day is in exactly one cluster, once,
\* and the blocks of the cluster of a block are the blocks linked to it by
\* a chain of pairwise overlapping blocks.
C20_ConnectedComponents ==
    layout.pc = "done" =>
        /\ Cardinality(Places) = Len(layout.input)
        /\ \A i \in 1..Len(layout.input) :
                \E gk \in Places :
                    layout.overlap_groups[gk[1]][gk[2]] = layout.input[i]
        /\ \A g \in 1..Len(layout.overlap_groups) :
                \A k \in 1..Len(layout.overlap_groups[g]) :
                    {layout.overlap_groups[g][l] :
                            l \in 1..Len(layout.overlap_groups[g])}
                        = Linked(InputBlocks, {layout.overlap_groups[g][k]})

\* three blocks are one cluster although two of them do not overlap: the
\* third overlaps both
C20_Witness ==
    /\ layout.pc = "done"
    /\ Len(layout.input) = 3
    /\ Len(layout.overlap_groups) = 1
    /\ \E i \in 1..3 : \E j \in 1..3 :
            /\ ~StatedOverlap(layout.input[i], layout.input[j])
            /\ i # j


(***************************************************************************)
(* Properties of the occurrences at their creation                         *)
(***************************************************************************)
\* the fields of a block that an occurrence takes from its template
ClonedFields(b) ==
    <<b.name, b.localization, b.client, b.start_time, b.end_time, b.month,
      b.year, b.duration, b.constant, b.archived, b.hourly_value>>

\* the payroll attributes of the assignments of block id among A
PayrollRows(A, id) ==
    {<<a.employee, a.duration, a.receives_payment, a.hourly_rate_override>> :
        a \in {x \in A : x.work_block = id}}

\* C21: when an expansion creates a block, the block equals the template
\* on every field but day_of_month, and it has exactly one assignment per
\* assignment of the template, with the same employee, duration,
\* receives_payment and hourly_rate_override, and none for another
\* employee.
C21_OccurrenceClonesTemplate ==
    [][\A b \in blocks' :
            (b.id \notin Ids /\ history'[b.id].origin # 0) =>
                \E t \in blocks' :
                    /\ t.id = history'[b.id].origin
                    /\ ClonedFields(b) = ClonedFields(t)
                    /\ b.day_of_month # t.day_of_month
                    /\ PayrollRows(assignments', b.id)
                            = PayrollRows(assignments', t.id)
                    /\ Cardinality({a \in assignments' : a.work_block = b.id})
                        = Cardinality({a \in assignments' :
                                            a.work_block = t.id})
                    /\ \A a1 \in assignments' : \A a2 \in assignments' :
                            (/\ a1.work_block = b.id /\ a2.work_block = b.id
                             /\ a1.employee = a2.employee) => a1 = a2
      ]_vars

\* a constant block for Acme with Ana (override 10.00, completed) was
\* created on the 10th and expanded: the occurrence of the 17th has Ana's
\* assignment with the override
C21_Witness ==
    /\ last.op = "admin_add" /\ last.status = 302
    /\ \E t \in blocks : \E b \in blocks :
            /\ t.id = last.block /\ t.day_of_month = 10 /\ t.client = "Acme"
            /\ history[b.id].origin = t.id
            /\ b.day_of_month = 17 /\ b.client = "Acme"
            /\ \E a \in assignments :
                    /\ a.work_block = b.id /\ a.employee = "Ana"
                    /\ a.hourly_rate_override = 1000
                    /\ ~a.is_completed


(***************************************************************************)
(* Properties of the workload figures of the report                        *)
(***************************************************************************)
\* the assignments of employee e on the non-archived blocks of the month
\* with the completion flag `done`
MonthRows(e, y, m, done) ==
    {a \in assignments :
        /\ a.employee = e /\ a.is_completed = done
        /\ \E b \in blocks :
                /\ b.id = a.work_block /\ ~b.archived
                /\ b.year = y /\ b.month = m}

\* C22: expected_hours of an employee is the sum of duration over all the
\* employee's assignments on non-archived blocks of the month, the
\* completed ones included, total_hours_worked is the sum over the
\* completed ones only, and so total_hours_worked <= expected_hours.
C22_ExpectedHours ==
    \A ym \in ReportMonths : \A e \in Employees :
        LET done == MonthRows(e, ym[1], ym[2], TRUE)
            pending == MonthRows(e, ym[1], ym[2], FALSE)
            worked == total_hours_worked(blocks, assignments, e, ym[1], ym[2])
            expected == expected_hours(blocks, assignments, e, ym[1], ym[2])
        IN  /\ worked = SumF([a \in done |-> a.duration], done)
            /\ expected = worked
                            + SumF([a \in pending |-> a.duration], pending)
            /\ worked <= expected

\* Ana has 3.50 completed hours and pending hours in March: 3.50 worked
\* of more expected
C22_Witness ==
    /\ total_hours_worked(blocks, assignments, "Ana", 2025, 3) = 350
    /\ expected_hours(blocks, assignments, "Ana", 2025, 3) > 350
    /\ MonthRows("Ana", 2025, 3, FALSE) # {}
    /\ last.op = "admin_add"


(***************************************************************************)
(* Properties of the current week of the report                            *)
(***************************************************************************)
\* the days on which the report is asked for: a Wednesday of March, and a
\* Saturday and a Wednesday of the week from 24 February to 2 March
ReportDays == {Today, [year |-> 2025, month |-> 3, day |-> 1],
               [year |-> 2025, month |-> 2, day |-> 26]}

\* the assignments of employee e on non-archived blocks dated within the
\* week (Monday..Sunday) of `today`
WeekRows(e, today) ==
    LET monday == toordinal(today.year, today.month, today.day)
                    - weekday(today.year, today.month, today.day)
    IN  {a \in assignments :
            /\ a.employee = e
            /\ \E b \in blocks :
                    /\ b.id = a.work_block /\ ~b.archived
                    /\ ValidDate(b.year, b.month, b.day_of_month)
                    /\ toordinal(b.year, b.month, b.day_of_month)
                            \in monday..(monday + 6)}

C24_RealDates ==
    \A b \in blocks : ValidDate(b.year, b.month, b.day_of_month)


(***************************************************************************)
(* Properties of the week view                                             *)
(***************************************************************************)
\* the weeks asked for: 24 February..2 March 2025, 3..9 March 2025, and
\* week 1 of 2025, 30 December 2024..5 January 2025
WeekInputs == {<<2025, 9>>, <<2025, 10>>, <<2025, 1>>}

\* C25: for every requested (year, week) the week view has, under each day
\* Monday..Sunday of that ISO week, exactly the stored blocks dated that
\* day, so every block of the week once and no block from outside it, also
\* when the week spans two months or two calendar years.
C25_WeekView ==
    \A yw \in WeekInputs :
        LET r == index(blocks, yw[1], yw[2])
            monday == fromisocalendar(yw[1], yw[2], 1)
        IN  /\ ~r.raised
            /\ \A i \in 0..6 :
                    r.days[i] =
                        {b.id : b \in {x \in blocks :
                            /\ ValidDate(x.year, x.month, x.day_of_month)
                            /\ toordinal(x.year, x.month, x.day_of_month)
                                    = monday + i}}


(***************************************************************************)
(* Properties of interleaved admin requests                                *)
(***************************************************************************)
\* C26: when two admin add requests interleave on the shared
\* WorkBlockAdmin, the save_related of each request acts on the block its
\* own save_model saved: inside the expansion loop a thread expands its own
\* block, and once a request is served its block was expanded once if it
\* was created constant and not at all otherwise.
C26_OwnBlockExpanded ==
    \A t \in Threads :
        /\ threads[t].pc \in {"loop", "create"} =>
                threads[t].obj = threads[t].self
        /\ (threads[t].pc = "idle" /\ threads[t].served > 0) =>
                history[threads[t].self[1].id].expansions
                    = IF threads[t].self[1].constant THEN 1 ELSE 0


(***************************************************************************)
(* Properties of the exports                                               *)
(***************************************************************************)
\* C27: for every month and employee, the value earned that
\* export_employee_csv and export_combined_csv write is the
\* total_value_earned of admin_statistics, the sum of get_employee_payment
\* over the completed assignments of the employee
C27_ExportValueEarned ==
    \A ym \in ReportMonths : \A e \in Employees :
        LET earned == total_value_earned(blocks, assignments, contract,
                                         e, ym[1], ym[2])
        IN  /\ export_employee_csv_value_earned(blocks, assignments,
                                                e, ym[1], ym[2]) = earned
            /\ export_combined_csv_value_earned(blocks, assignments,
                                                e, ym[1], ym[2]) = earned


(***************************************************************************)
(* Properties of the failed requests                                       *)
(***************************************************************************)
\* C28: a request of api_assign_employees or api_edit_work_block on a
\* stored block that is answered 400 (an employee it names does not
\* exist; for an unknown client nothing was written yet) leaves the
\* assignments of the block as they were before the request
C28_FailedRequestKeepsAssignments ==
    [][(/\ last'.op \in {"api_assign_employees", "api_edit_work_block"}
        /\ nops' = nops + 1
        /\ last'.status = 400
        /\ last'.block \in Ids)
            => assignments_of(assignments', last'.block)
                    = assignments_of(assignments, last'.block)]_vars


(***************************************************************************)
(* Properties of toggle_completion                                         *)
(***************************************************************************)
\* the stored rows other than the fields a toggle writes
SameButCompletion(a, b) ==
    /\ b.employee = a.employee
    /\ b.work_block = a.work_block
    /\ b.duration = a.duration
    /\ b.receives_payment = a.receives_payment
    /\ b.hourly_rate_override = a.hourly_rate_override

\* the step of toggle_completion(e, id) on a stored block
ToggleFrame(e, id) ==
    IF ~is_assigned(assignments, e, id)
    THEN /\ last'.status = 403
         /\ UNCHANGED dbvars
    ELSE /\ last'.status = 200
         /\ UNCHANGED <<blocks, bonuses, contract>>
         /\ \E a \in assignments : \E b \in assignments' :
                /\ a.employee = e /\ a.work_block = id
                /\ SameButCompletion(a, b)
                /\ b.is_completed = ~a.is_completed
                /\ assignments' \ {b} = assignments \ {a}

\* C30: toggle_completion by an employee who is not assigned to the block
\* is answered 403 and changes nothing stored; by an assigned employee it
\* negates is_completed of that one assignment, may change its
\* completed_date, and leaves its other fields, the other assignments and
\* everything else stored as they were; toggling a stored assignment twice
\* gives back its is_completed
C30_ToggleFrame ==
    /\ [][\A e \in Employees : \A id \in Ids :
            toggle_completion(e, id) => ToggleFrame(e, id)]_vars
    /\ [](\A a \in assignments :
            LET once == toggle_assignment(a, nops + 1)
                twice == toggle_assignment(once, nops + 2)
            IN  /\ twice.is_completed = a.is_completed
                /\ SameButCompletion(a, twice))

\* an assigned employee has just marked a pending assignment completed
\* while the other employee of the block stayed pending
C30_Witness ==
    /\ last.op = "toggle_completion"
    /\ last.status = 200
    /\ \E a \in assignments : \E o \in assignments :
            /\ a.work_block = last.block /\ o.work_block = last.block
            /\ a.is_completed /\ a.completed_date = nops
            /\ ~o.is_completed /\ o.employee # a.employee


(***************************************************************************)
(* Properties of the horizontal ranges                                     *)
(***************************************************************************)
\* the number of entries of positioned_blocks before those of group g
RECURSIVE EntriesBefore(_)
EntriesBefore(g) ==
    IF g = 1 THEN 0
    ELSE EntriesBefore(g - 1) + Len(layout.overlap_groups[g - 1])

\* the clusters are laid out left to right in (start_time, end_time) order
\* with left = 2 + idx * (90/n + 1) and their ranges [left, left + width)
\* are pairwise disjoint; lefts and widths of a cluster of n are in units
\* of 1/n percent
RangesInOrder ==
    layout.pc = "done" =>
        \A g \in 1..Len(layout.overlap_groups) :
            LET n == Len(layout.overlap_groups[g])
                entry(k) == layout.positioned_blocks[EntriesBefore(g) + k]
            IN  \A k \in 1..n :
                    /\ entry(k).left = Frac(2 * n + (k - 1) * (90 + n), n)
                    /\ entry(k).width.den = n
                    /\ \A j \in (k + 1)..n :
                            /\ KeyLE(entry(k).block, entry(j).block)
                            /\ entry(k).left.num + entry(k).width.num
                                    <= entry(j).left.num

\* every right edge left + width is at most 100 percent
RightEdgesInColumn ==
    layout.pc = "done" =>
        \A e \in 1..Len(layout.positioned_blocks) :
            LET p == layout.positioned_blocks[e]
            IN  p.left.num * p.width.den + p.width.num * p.left.den
                    <= 100 * p.left.den * p.width.den

\* C29: in every cluster of every size n the positioned blocks occupy
\* pairwise disjoint ranges [left, left + width) given in
\* (start_time, end_time) order with left = 2 + idx * (90/n + 1), and
\* the right edge left + width of every block is at most 100 percent of
\* the day column
C29_RangesInColumn == RangesInOrder /\ RightEdgesInColumn

====
